---------------------------- MODULE Spec2Model ----------------------------
(***************************************************************************)
(* Argon2 POWER8/VSX block-filling engine: src/src/opt-vsx.c and           *)
(* src/src/blake2/blamka-round-vsx.h.                                      *)
(*                                                                         *)
(* Representation.  A 128-bit VSX register is a sequence of 16 bytes in    *)
(* little-endian element order (ppc64le, the order in which vec_xl lays    *)
(* out memory and in which the permute constants of the header are         *)
(* written): byte k of the register is element k+1 of the sequence, the    *)
(* first 64-bit lane is bytes 0..7, least significant byte first.  A       *)
(* 1024-byte block is the sequence of its 64 consecutive 16-byte chunks,   *)
(* so that word v[k] is bytes 8(k mod 2) .. 8(k mod 2)+7 of chunk k div 2. *)
(* No integer exceeds 2^31: 64-bit arithmetic is carried out on bytes with *)
(* explicit carries, which keeps the exact wrap-around of the code.        *)
(*                                                                         *)
(* Operators take every intermediate value as a parameter, one operator    *)
(* per statement group of the source, so that each value is computed once. *)
(***************************************************************************)
EXTENDS Integers, Sequences, FiniteSets, TLC

(***************************************************************************)
(* Byte and lane arithmetic                                                *)
(***************************************************************************)

RECURSIVE XorBits(_, _, _)
XorBits(a, b, n) ==
    IF n = 0 THEN 0
    ELSE ((a + b) % 2) + 2 * XorBits(a \div 2, b \div 2, n - 1)

\* xor of two bytes, tabulated once
XorTable == [a \in 0..255 |-> [b \in 0..255 |-> XorBits(a, b, 8)]]

XorByte(a, b) == XorTable[a][b]

\* the n bytes of v that start at byte offset o (0-based)
Bytes(v, o, n) == SubSeq(v, o + 1, o + n)

\* explicit tuples: an 8-byte lane, a 16-byte register, a 64-register array
Tup8(F(_)) == << F(1), F(2), F(3), F(4), F(5), F(6), F(7), F(8) >>

Tup16(F(_)) ==
    << F(1), F(2), F(3), F(4), F(5), F(6), F(7), F(8),
       F(9), F(10), F(11), F(12), F(13), F(14), F(15), F(16) >>

Tup64(F(_)) ==
    << F(1), F(2), F(3), F(4), F(5), F(6), F(7), F(8),
       F(9), F(10), F(11), F(12), F(13), F(14), F(15), F(16),
       F(17), F(18), F(19), F(20), F(21), F(22), F(23), F(24),
       F(25), F(26), F(27), F(28), F(29), F(30), F(31), F(32),
       F(33), F(34), F(35), F(36), F(37), F(38), F(39), F(40),
       F(41), F(42), F(43), F(44), F(45), F(46), F(47), F(48),
       F(49), F(50), F(51), F(52), F(53), F(54), F(55), F(56),
       F(57), F(58), F(59), F(60), F(61), F(62), F(63), F(64) >>

\* little-endian values of 3 and of 2 consecutive bytes, from position k
Val3(v, k) == v[k] + 256 * v[k + 1] + 65536 * v[k + 2]

Val2(v, k) == v[k] + 256 * v[k + 1]

\* the 64-bit wrap-around sum of the lanes at byte offset o of x and y, from
\* the sums of their bytes 0..2 (lo), 3..5 (mid) and 6..7 (hi) with carries
AddBytes(lo, mid, hi) ==
    << lo % 256, (lo \div 256) % 256, (lo \div 65536) % 256,
       mid % 256, (mid \div 256) % 256, (mid \div 65536) % 256,
       hi % 256, (hi \div 256) % 256 >>

AddHi(x, y, o, lo, mid) ==
    AddBytes(lo, mid, Val2(x, o + 7) + Val2(y, o + 7) + (mid \div 16777216))

AddMid(x, y, o, lo) ==
    AddHi(x, y, o, lo, Val3(x, o + 4) + Val3(y, o + 4) + (lo \div 16777216))

Add64(x, y, o) == AddMid(x, y, o, Val3(x, o + 1) + Val3(y, o + 1))

\* the 64-bit product of the unsigned 32-bit elements at byte offset o of x
\* and y: the bytes of x times the 16-bit halves of y, in columns of weight
\* 256^k with the carry of the column before (t0, ..., t5)
MulBytes(t0, t1, t2, t3, t4, t5) ==
    << t0 % 256, t1 % 256, t2 % 256, t3 % 256, t4 % 256,
       t5 % 256, (t5 \div 256) % 256, (t5 \div 65536) % 256 >>

Mul5(x, bh, o, t0, t1, t2, t3, t4) ==
    MulBytes(t0, t1, t2, t3, t4, x[o + 4] * bh + (t4 \div 256))

Mul4(x, bh, o, t0, t1, t2, t3) ==
    Mul5(x, bh, o, t0, t1, t2, t3, x[o + 3] * bh + (t3 \div 256))

Mul3(x, bl, bh, o, t0, t1, t2) ==
    Mul4(x, bh, o, t0, t1, t2, x[o + 4] * bl + x[o + 2] * bh + (t2 \div 256))

Mul2(x, bl, bh, o, t0, t1) ==
    Mul3(x, bl, bh, o, t0, t1, x[o + 3] * bl + x[o + 1] * bh + (t1 \div 256))

Mul1(x, bl, bh, o, t0) ==
    Mul2(x, bl, bh, o, t0, x[o + 2] * bl + (t0 \div 256))

Mul0(x, bl, bh, o) == Mul1(x, bl, bh, o, x[o + 1] * bl)

Mul32x32(x, y, o) == Mul0(x, Val2(y, o + 1), Val2(y, o + 3), o)

Pow2(r) ==
    IF r = 0 THEN 1 ELSE IF r = 1 THEN 2 ELSE IF r = 2 THEN 4
    ELSE IF r = 3 THEN 8 ELSE IF r = 4 THEN 16 ELSE IF r = 5 THEN 32
    ELSE IF r = 6 THEN 64 ELSE 128

\* byte k (1..8) of a lane, 0 outside it
LaneByte(w, k) == IF k >= 1 /\ k <= 8 THEN w[k] ELSE 0

\* logical right shift of one 64-bit lane by 8q + r bits, P = 2^r
ShrBy(w, q, P) ==
    Tup8(LAMBDA k : ((LaneByte(w, k + q) + 256 * LaneByte(w, k + q + 1)) \div P) % 256)

Shr64(w, n) == ShrBy(w, n \div 8, Pow2(n % 8))

\* logical left shift of one 64-bit lane by 8q + r bits, P = 2^r
ShlBy(w, q, P) ==
    Tup8(LAMBDA k : (((LaneByte(w, k - q) * 256 + LaneByte(w, k - q - 1)) * P) \div 256) % 256)

Shl64(w, n) == ShlBy(w, n \div 8, Pow2(n % 8))

(***************************************************************************)
(* AltiVec/VSX intrinsics on little-endian POWER8                          *)
(***************************************************************************)

vec_xor(x, y) == Tup16(LAMBDA k : XorByte(x[k], y[k]))

\* vector unsigned long long addition: each 64-bit lane wraps on its own
vec_add(x, y) == Add64(x, y, 0) \o Add64(x, y, 8)

\* byte k of the result is byte p[k] of the 32 bytes ab
PermBytes(ab, p) == Tup16(LAMBDA k : ab[(p[k] % 32) + 1])

\* vec_perm(a, b, p): bytes selected from the concatenation a || b
vec_perm(a, b, p) == PermBytes(a \o b, p)

\* the odd elements 1 and 3 (byte offsets 4 and 12) multiplied instead
vec_mulo(x32, y32) == Mul32x32(x32, y32, 4) \o Mul32x32(x32, y32, 12)

\* vec_mule on vector unsigned int: elements 0 and 2 (byte offsets 0 and
\* 8), each product widened to 64 bits
vec_mule(x32, y32) == Mul32x32(x32, y32, 0) \o Mul32x32(x32, y32, 8)

vec_sr(x, n) == Shr64(Bytes(x, 0, 8), n) \o Shr64(Bytes(x, 8, 8), n)

vec_sl(x, n) == Shl64(Bytes(x, 0, 8), n) \o Shl64(Bytes(x, 8, 8), n)

(***************************************************************************)
(* blamka-round-vsx.h                                                      *)
(***************************************************************************)

ROT32_PERM == << 4, 5, 6, 7, 0, 1, 2, 3, 12, 13, 14, 15, 8, 9, 10, 11 >>
ROT24_PERM == << 3, 4, 5, 6, 7, 0, 1, 2, 11, 12, 13, 14, 15, 8, 9, 10 >>
ROT16_PERM == << 2, 3, 4, 5, 6, 7, 0, 1, 10, 11, 12, 13, 14, 15, 8, 9 >>
ALIGNR8_01 == << 8, 9, 10, 11, 12, 13, 14, 15, 16, 17, 18, 19, 20, 21, 22, 23 >>

\* x + y + 2z, z = vec_mule(x32, y32)
BlaMkaSum(x, y, z) == vec_add(vec_add(x, y), vec_add(z, z))

fBlaMka_vsx(x, y) == BlaMkaSum(x, y, vec_mule(x, y))

\* VSX_ROTI_EPI64(x, c) is called with c = -32, -24, -16, -63; n is -(c)
VSX_ROTI_EPI64(x, n) ==
    IF n = 32 THEN vec_perm(x, x, ROT32_PERM)
    ELSE IF n = 24 THEN vec_perm(x, x, ROT24_PERM)
    ELSE IF n = 16 THEN vec_perm(x, x, ROT16_PERM)
    ELSE IF n = 63 THEN vec_xor(vec_sr(x, 63), vec_add(x, x))
    ELSE vec_xor(vec_sr(x, n), vec_sl(x, 64 - n))

\* The working set of a round is the record [A0, B0, C0, D0, A1, B1, C1, D1].
\* One half of the quarter round (G1_VSX, G2_VSX), statement pair by pair:
\* A = fBlaMka(A, B)
G_A(s) == [s EXCEPT !.A0 = fBlaMka_vsx(s.A0, s.B0), !.A1 = fBlaMka_vsx(s.A1, s.B1)]

\* D = rotate(D xor A, r1)
G_D(s, r1) == [s EXCEPT !.D0 = VSX_ROTI_EPI64(vec_xor(s.D0, s.A0), r1),
                        !.D1 = VSX_ROTI_EPI64(vec_xor(s.D1, s.A1), r1)]

\* C = fBlaMka(C, D)
G_C(s) == [s EXCEPT !.C0 = fBlaMka_vsx(s.C0, s.D0), !.C1 = fBlaMka_vsx(s.C1, s.D1)]

\* B = rotate(B xor C, r2)
G_B(s, r2) == [s EXCEPT !.B0 = VSX_ROTI_EPI64(vec_xor(s.B0, s.C0), r2),
                        !.B1 = VSX_ROTI_EPI64(vec_xor(s.B1, s.C1), r2)]

G1_VSX(s) == G_B(G_C(G_D(G_A(s), 32)), 24)

G2_VSX(s) == G_B(G_C(G_D(G_A(s), 16)), 63)

\* the D registers assigned without the exchange (D0 = t0, D1 = t1)
DiagonalizeUnswapped(s) ==
    [A0 |-> s.A0, A1 |-> s.A1,
     B0 |-> vec_perm(s.B0, s.B1, ALIGNR8_01),
     B1 |-> vec_perm(s.B1, s.B0, ALIGNR8_01),
     C0 |-> s.C1, C1 |-> s.C0,
     D0 |-> vec_perm(s.D0, s.D1, ALIGNR8_01),
     D1 |-> vec_perm(s.D1, s.D0, ALIGNR8_01)]

DIAGONALIZE_VSX(s) ==
    [A0 |-> s.A0, A1 |-> s.A1,
     B0 |-> vec_perm(s.B0, s.B1, ALIGNR8_01),
     B1 |-> vec_perm(s.B1, s.B0, ALIGNR8_01),
     C0 |-> s.C1, C1 |-> s.C0,
     D0 |-> vec_perm(s.D1, s.D0, ALIGNR8_01),
     D1 |-> vec_perm(s.D0, s.D1, ALIGNR8_01)]

\* the operands of the permutes in the order DIAGONALIZE_VSX has them
UndiagonalizeAsDiagonalize(s) ==
    [A0 |-> s.A0, A1 |-> s.A1,
     B0 |-> vec_perm(s.B0, s.B1, ALIGNR8_01),
     B1 |-> vec_perm(s.B1, s.B0, ALIGNR8_01),
     C0 |-> s.C1, C1 |-> s.C0,
     D0 |-> vec_perm(s.D1, s.D0, ALIGNR8_01),
     D1 |-> vec_perm(s.D0, s.D1, ALIGNR8_01)]

UNDIAGONALIZE_VSX(s) ==
    [A0 |-> s.A0, A1 |-> s.A1,
     B0 |-> vec_perm(s.B1, s.B0, ALIGNR8_01),
     B1 |-> vec_perm(s.B0, s.B1, ALIGNR8_01),
     C0 |-> s.C1, C1 |-> s.C0,
     D0 |-> vec_perm(s.D0, s.D1, ALIGNR8_01),
     D1 |-> vec_perm(s.D1, s.D0, ALIGNR8_01)]

\* the macro's arguments (A0, A1, B0, B1, C0, C1, D0, D1), taken from the
\* registers st[ix[1]], ..., st[ix[8]] (1-based positions in the array)
RoundArgs(st, ix) ==
    [A0 |-> st[ix[1]], A1 |-> st[ix[2]], B0 |-> st[ix[3]], B1 |-> st[ix[4]],
     C0 |-> st[ix[5]], C1 |-> st[ix[6]], D0 |-> st[ix[7]], D1 |-> st[ix[8]]]

\* the macro assigns its arguments in place
RoundStore(st, ix, s) ==
    [st EXCEPT ![ix[1]] = s.A0, ![ix[2]] = s.A1, ![ix[3]] = s.B0, ![ix[4]] = s.B1,
               ![ix[5]] = s.C0, ![ix[6]] = s.C1, ![ix[7]] = s.D0, ![ix[8]] = s.D1]

BLAKE2_ROUND_VSX(st, ix) ==
    RoundStore(st, ix,
        UNDIAGONALIZE_VSX(G2_VSX(G1_VSX(
            DIAGONALIZE_VSX(G2_VSX(G1_VSX(RoundArgs(st, ix))))))))

(***************************************************************************)
(* opt-vsx.c: fill_block                                                   *)
(***************************************************************************)

ARGON2_BLOCK_SIZE == 1024

ARGON2_VSX_OWORDS_IN_BLOCK == ARGON2_BLOCK_SIZE \div 16

\* VSX_LOADU((const uint64_t *)blk->v + i*2): the 16 bytes at word 2i
VSX_LOADU(blk, i) == blk[i + 1]

\* state[8i + 0], ..., state[8i + 7]
RowIx(i) == Tup8(LAMBDA k : 8 * i + (k - 1) + 1)

\* state[8*0 + i], ..., state[8*7 + i]
ColIx(i) == Tup8(LAMBDA k : 8 * (k - 1) + i + 1)

\* The rounds i, i+1, ..., 7.  (st = st is always true: it has the round
\* before evaluated before this one starts.)
RECURSIVE RowRounds(_, _)
RowRounds(st, i) ==
    IF st = st /\ i < 8
    THEN RowRounds(BLAKE2_ROUND_VSX(st, RowIx(i)), i + 1)
    ELSE st

RECURSIVE ColRounds(_, _)
ColRounds(st, i) ==
    IF st = st /\ i < 8
    THEN ColRounds(BLAKE2_ROUND_VSX(st, ColIx(i)), i + 1)
    ELSE st

\* the last loop: state[i] = state[i] xor block_XY[i], stored to next_block
XorStore(st, block_XY) == Tup64(LAMBDA i : vec_xor(st[i], block_XY[i]))

\* the two round loops on the xored state st0
Permute(st0, block_XY) == XorStore(ColRounds(RowRounds(st0, 0), 0), block_XY)

\* the first loop has set state = st0; block_XY follows from with_xor
FillFrom(st0, next_block, with_xor) ==
    IF st0 = st0 /\ with_xor
    THEN Permute(st0, Tup64(LAMBDA i : vec_xor(st0[i], VSX_LOADU(next_block, i - 1))))
    ELSE Permute(st0, st0)

\* fill_block(state, ref_block, next_block, with_xor): the new state array,
\* which is also the block stored to next_block
fill_block(state, ref_block, next_block, with_xor) ==
    FillFrom(Tup64(LAMBDA i : vec_xor(state[i], VSX_LOADU(ref_block, i - 1))),
             next_block, with_xor)

(***************************************************************************)
(* State                                                                   *)
(*   inst    the argon2_instance_t the segments are filled for             *)
(*   memory  instance->memory, blocks numbered from offset 0               *)
(*   pass, slice   the (pass, slice) the orchestrator is at                *)
(*   seg     per lane, the locals of the fill_segment call of that lane    *)
(*   hist    what the calls have done so far (observation only)            *)
(*   core    the operands and results of a Mixing Core operation run on    *)
(*           its own                                                       *)
(***************************************************************************)
VARIABLES inst, memory, pass, slice, seg, hist, core

vars == << inst, memory, pass, slice, seg, hist, core >>

Unused == << >>

\* a family of byte patterns used as register and block contents
PatByte(a, p) == (a * 131 + p * (2 * a + 3) + (p \div 7) * 37 + (p \div 64) * a) % 256

PatVec(a, j) == Tup16(LAMBDA k : PatByte(a, 16 * j + k))

PatBlock(a) == Tup64(LAMBDA i : PatVec(a, i - 1))

(***************************************************************************)
(* fBlaMka_vsx on its own                                                  *)
(***************************************************************************)

\* 64-bit lane values, least significant byte first
LaneValues ==
    { << 0, 0, 0, 0, 0, 0, 0, 0 >>,
      << 1, 0, 0, 0, 0, 0, 0, 0 >>,
      << 255, 255, 255, 255, 0, 0, 0, 0 >>,
      << 0, 0, 0, 0, 1, 0, 0, 0 >>,
      << 255, 255, 255, 255, 255, 255, 255, 255 >>,
      << 239, 190, 173, 222, 13, 240, 254, 202 >>,
      << 3, 0, 0, 128, 255, 255, 255, 127 >> }

InitBlaMka ==
    /\ inst = Unused /\ memory = Unused /\ pass = 0 /\ slice = 0
    /\ seg = Unused /\ hist = Unused
    /\ \E x0 \in LaneValues, x1 \in {<< 0, 0, 0, 0, 0, 0, 0, 0 >>, << 254, 255, 255, 255, 7, 0, 0, 0 >>},
          y0 \in LaneValues, y1 \in {<< 255, 255, 255, 255, 255, 255, 255, 255 >>, << 2, 0, 0, 0, 9, 0, 0, 0 >>} :
          core = [op |-> "fBlaMka", pc |-> "in", x |-> x0 \o x1, y |-> y0 \o y1,
                  r |-> Unused]

ApplyBlaMka ==
    /\ core.op = "fBlaMka" /\ core.pc = "in"
    /\ core' = [core EXCEPT !.pc = "out", !.r = fBlaMka_vsx(core.x, core.y)]
    /\ UNCHANGED << inst, memory, pass, slice, seg, hist >>

SpecBlaMka == InitBlaMka /\ [][ApplyBlaMka]_vars

(***************************************************************************)
(* DIAGONALIZE_VSX / UNDIAGONALIZE_VSX on their own                        *)
(***************************************************************************)

NumWorkingSets == 40

WorkingSet(a) ==
    [A0 |-> PatVec(a, 0), B0 |-> PatVec(a, 1), C0 |-> PatVec(a, 2), D0 |-> PatVec(a, 3),
     A1 |-> PatVec(a, 4), B1 |-> PatVec(a, 5), C1 |-> PatVec(a, 6), D1 |-> PatVec(a, 7)]

InitDiag ==
    /\ inst = Unused /\ memory = Unused /\ pass = 0 /\ slice = 0
    /\ seg = Unused /\ hist = Unused
    /\ \E a \in 0..(NumWorkingSets - 1) :
          core = [op |-> "diag", pc |-> "in", w0 |-> WorkingSet(a),
                  mid |-> Unused, w |-> WorkingSet(a)]

Diagonalize ==
    /\ core.op = "diag" /\ core.pc = "in"
    /\ \E d \in {DIAGONALIZE_VSX(core.w)} :
          core' = [core EXCEPT !.pc = "diag", !.w = d, !.mid = d]
    /\ UNCHANGED << inst, memory, pass, slice, seg, hist >>

Undiagonalize ==
    /\ core.op = "diag" /\ core.pc = "diag"
    /\ core' = [core EXCEPT !.pc = "done", !.w = UNDIAGONALIZE_VSX(core.w)]
    /\ UNCHANGED << inst, memory, pass, slice, seg, hist >>

SpecDiag == InitDiag /\ [][Diagonalize \/ Undiagonalize]_vars

(***************************************************************************)
(* fill_block on its own                                                   *)
(***************************************************************************)

NumPatterns == 3

InitFillBlock ==
    /\ inst = Unused /\ memory = Unused /\ pass = 0 /\ slice = 0
    /\ seg = Unused /\ hist = Unused
    /\ \E a \in 0..(NumPatterns - 1), b \in 0..(NumPatterns - 1),
          c \in 0..(NumPatterns - 1), x \in BOOLEAN :
          core = [op |-> "fill_block", pc |-> "in",
                  state |-> PatBlock(a), ref_block |-> PatBlock(5 * b + 1),
                  next_block |-> PatBlock(7 * c + 2), with_xor |-> x,
                  out_state |-> Unused, out_next |-> Unused]

\* fill_block leaves the result both in state[] and in *next_block
FillBlock ==
    /\ core.op = "fill_block" /\ core.pc = "in"
    /\ \E st \in {fill_block(core.state, core.ref_block, core.next_block, core.with_xor)} :
          core' = [core EXCEPT !.pc = "done", !.out_state = st, !.out_next = st]
    /\ UNCHANGED << inst, memory, pass, slice, seg, hist >>

SpecFillBlock == InitFillBlock /\ [][FillBlock]_vars

(***************************************************************************)
(* Constants of argon2.h and core.h                                        *)
(***************************************************************************)

ARGON2_ADDRESSES_IN_BLOCK == 128
ARGON2_SYNC_POINTS == 4
ARGON2_VERSION_10 == 16
ARGON2_VERSION_13 == 19
Argon2_d == 0
Argon2_i == 1
Argon2_id == 2

NULL == "NULL"

(***************************************************************************)
(* Words of a block                                                        *)
(***************************************************************************)

\* the 32-bit value n (0 <= n < 2^31) as 4 bytes, and widened to uint64_t
ToBytes4(n) == << n % 256, (n \div 256) % 256, (n \div 65536) % 256, (n \div 16777216) % 256 >>

ToWord(n) == ToBytes4(n) \o << 0, 0, 0, 0 >>

\* blk->v[k]
Word(blk, k) == Bytes(blk[(k \div 2) + 1], 8 * (k % 2), 8)

\* blk->v[k] = w
SetWord(blk, k, w) ==
    [blk EXCEPT ![(k \div 2) + 1] =
        IF k % 2 = 0 THEN w \o Bytes(@, 8, 8) ELSE Bytes(@, 0, 8) \o w]

ZeroVec == Tup16(LAMBDA k : 0)

\* memset(..., 0, ...) of a block or of a state array
ZeroBlock == Tup64(LAMBDA i : ZeroVec)

\* the value of 4 little-endian bytes modulo a small n
Mod32(b, n) == ((((((b[4] % n) * 256 + b[3]) % n) * 256 + b[2]) % n) * 256 + b[1]) % n

\* the value of the low 3 bytes of a 32-bit number below 2^24
Val24(b) == b[1] + 256 * b[2] + 65536 * b[3]

(***************************************************************************)
(* core.c: index_alpha, the reference-index rule                           *)
(***************************************************************************)

reference_area_size(I, p, s, index, same_lane) ==
    IF p = 0
    THEN IF s = 0 THEN index - 1
         ELSE IF same_lane THEN s * I.segment_length + index - 1
         ELSE s * I.segment_length + (IF index = 0 THEN -1 ELSE 0)
    ELSE IF same_lane THEN I.lane_length - I.segment_length + index - 1
         ELSE I.lane_length - I.segment_length + (IF index = 0 THEN -1 ELSE 0)

start_position(I, p, s) ==
    IF p = 0 THEN 0
    ELSE IF s = ARGON2_SYNC_POINTS - 1 THEN 0
    ELSE (s + 1) * I.segment_length

\* relative_position = area - 1 - (area * (pseudo_rand^2 >> 32) >> 32)
relative_position(area, pseudo_rand32) ==
    area - 1 - Val24(Bytes(Mul32x32(ToBytes4(area),
                                    Bytes(Mul32x32(pseudo_rand32, pseudo_rand32, 0), 4, 4),
                                    0), 4, 4))

index_alpha(I, p, s, index, pseudo_rand32, same_lane) ==
    (start_position(I, p, s) +
     relative_position(reference_area_size(I, p, s, index, same_lane), pseudo_rand32))
        % I.lane_length

(***************************************************************************)
(* opt-vsx.c: next_addresses                                               *)
(***************************************************************************)

\* the counter left as it is
CounterUnchanged(input_block) == input_block

\* input_block->v[6]++
IncrementCounter(input_block) ==
    SetWord(input_block, 6, Add64(Word(input_block, 6), ToWord(1), 0))

\* the second fill_block call: address_block is ref_block and next_block
SecondFill(a1) == fill_block(ZeroBlock, a1, a1, FALSE)

\* the two fill_block calls, ib being the input block after the increment
AddressesFrom(address_block, ib) ==
    [address_block |-> SecondFill(fill_block(ZeroBlock, ib, address_block, FALSE)),
     input_block |-> ib]

\* next_addresses(&address_block, &input_block): both blocks afterwards
next_addresses(address_block, input_block) ==
    AddressesFrom(address_block, IncrementCounter(input_block))

(***************************************************************************)
(* opt-vsx.c: fill_segment                                                 *)
(***************************************************************************)

data_independent_addressing(I, p, s) ==
    \/ I.type = Argon2_i
    \/ (I.type = Argon2_id /\ p = 0 /\ s < ARGON2_SYNC_POINTS \div 2)

\* init_block_value(&input_block, 0) and the six assignments that follow
InitInputBlock(I, p, l, s) ==
    << ToWord(p) \o ToWord(l), ToWord(s) \o ToWord(I.memory_blocks),
       ToWord(I.passes) \o ToWord(I.type) >> \o SubSeq(ZeroBlock, 4, 64)

\* the two seed blocks not skipped
StartingIndexZero(p, s) == 0

StartingIndex(p, s) == IF p = 0 /\ s = 0 THEN 2 ELSE 0

\* the lane term left out
CurrOffsetNoLane(I, l, s, starting_index) == s * I.segment_length + starting_index

CurrOffsetAtEntry(I, l, s, starting_index) ==
    l * I.lane_length + s * I.segment_length + starting_index

\* the wrap taken to the last block of the matrix instead of the lane
PrevOffsetWrapMatrix(I, curr_offset) ==
    IF curr_offset % I.lane_length = 0
    THEN I.memory_blocks - 1
    ELSE curr_offset - 1

PrevOffsetAtEntry(I, curr_offset) ==
    IF curr_offset % I.lane_length = 0
    THEN curr_offset + I.lane_length - 1
    ELSE curr_offset - 1

\* the first statement of the loop body
PrevOffsetInLoop(I, curr_offset, prev_offset) ==
    IF curr_offset % I.lane_length = 1 THEN curr_offset - 1 ELSE prev_offset

NeedsAddresses(i) == i % ARGON2_ADDRESSES_IN_BLOCK = 0

\* the first segment not forced to its own lane
RefLaneUnforced(I, p, s, l, pseudo_rand) == Mod32(Bytes(pseudo_rand, 4, 4), I.lanes)

RefLane(I, p, s, l, pseudo_rand) ==
    IF p = 0 /\ s = 0 THEN l ELSE Mod32(Bytes(pseudo_rand, 4, 4), I.lanes)

RefOffset(I, ref_lane, ref_index) == I.lane_length * ref_lane + ref_index

\* the two branches of the pass test exchanged
WithXorSwapped(I, p) ==
    IF I.version = ARGON2_VERSION_10 THEN FALSE
    ELSE IF p = 0 THEN TRUE ELSE FALSE

WithXor(I, p) ==
    IF I.version = ARGON2_VERSION_10 THEN FALSE
    ELSE IF p = 0 THEN FALSE ELSE TRUE

Lanes == 0..(inst.lanes - 1)

\* the number of the slice being filled, counted from 1 over all passes; a
\* block is stamped with it when written, seed blocks carry 0, blocks not
\* yet written -1
Now == pass * ARGON2_SYNC_POINTS + slice + 1

IdleLocals ==
    [status |-> "idle", instance |-> Unused, i |-> 0,
     curr_offset |-> 0, prev_offset |-> 0, state |-> Unused,
     data_independent_addressing |-> FALSE,
     address_block |-> Unused, input_block |-> Unused,
     pseudo_rand |-> Unused, ref_lane |-> 0, ref_index |-> 0]

\* what is recorded of one invocation: offsets written (in order), offsets
\* read, offsets read in another lane, generations of the address block,
\* whether the last step generated one, values drawn from the current one,
\* values the previous one had served when it was replaced (-1: none was
\* replaced), and the offsets of the previous, current and reference block
\* at the last fill_block
IdleHist ==
    [wlog |-> << >>, rlog |-> {}, xlog |-> {}, gens |-> 0, fresh |-> FALSE,
     draws |-> 0, gap |-> -1, used_prev |-> -1, used_curr |-> -1, used_ref |-> -1]

\* lines 98-133, the instance being there
EnterSegment(l, ptr) ==
    \E di \in {data_independent_addressing(inst, pass, slice)} :
    \E starting_index \in {StartingIndex(pass, slice)} :
    \E first \in {pass = 0 /\ slice = 0 /\ di} :
    \E na \in {IF first
               THEN next_addresses(Unused, InitInputBlock(inst, pass, l, slice))
               ELSE [address_block |-> Unused,
                     input_block |-> IF di THEN InitInputBlock(inst, pass, l, slice)
                                     ELSE Unused]} :
    \E curr_offset \in {CurrOffsetAtEntry(inst, l, slice, starting_index)} :
    \E prev_offset \in {PrevOffsetAtEntry(inst, curr_offset)} :
        /\ seg' = [seg EXCEPT ![l] =
               [status |-> IF starting_index < inst.segment_length
                           THEN "running" ELSE "returned",
                instance |-> ptr, i |-> starting_index,
                curr_offset |-> curr_offset, prev_offset |-> prev_offset,
                state |-> memory[prev_offset + 1],
                data_independent_addressing |-> di,
                address_block |-> na.address_block, input_block |-> na.input_block,
                pseudo_rand |-> Unused, ref_lane |-> 0, ref_index |-> 0]]
        /\ hist' = [hist EXCEPT !.lane[l] =
               [IdleHist EXCEPT !.rlog = {prev_offset},
                                !.gens = IF first THEN 1 ELSE 0,
                                !.fresh = first]]
        /\ UNCHANGED memory

\* the guard left out: the call goes on with the pointer it was given
EnterWithoutGuard(l) == EnterSegment(l, NULL)

\* lines 94-96
ReturnIfNull(l) ==
    /\ seg' = [seg EXCEPT ![l] = [IdleLocals EXCEPT !.status = "returned",
                                                   !.instance = NULL]]
    /\ UNCHANGED << memory, hist >>

fill_segment_entry(l, ptr) ==
    IF ptr = NULL THEN ReturnIfNull(l) ELSE EnterSegment(l, ptr)

\* the caller starts the segment of lane l of the current slice; a call
\* that was given no instance has done nothing, and the segment is still due
Call(l) ==
    /\ pass < inst.passes
    /\ \/ seg[l].status = "idle"
       \/ (seg[l].status = "returned" /\ seg[l].instance = NULL)
    /\ \E ptr \in {NULL, "instance"} : fill_segment_entry(l, ptr)
    /\ UNCHANGED << inst, pass, slice, core >>

\* lines 160-171 and the loop header: fill_block on the resolved blocks
FillCurrent(l, prev_offset, regen, na, pseudo_rand, ref_lane, ref_index, ref_offset) ==
    \E with_xor \in {WithXor(inst, pass)} :
    \E st \in {fill_block(seg[l].state, memory[ref_offset + 1],
                          memory[seg[l].curr_offset + 1], with_xor)} :
        /\ memory' = [memory EXCEPT ![seg[l].curr_offset + 1] = st]
        /\ seg' = [seg EXCEPT ![l] =
               [@ EXCEPT !.status = IF seg[l].i + 1 < inst.segment_length
                                    THEN "running" ELSE "returned",
                         !.i = seg[l].i + 1,
                         !.curr_offset = seg[l].curr_offset + 1,
                         !.prev_offset = prev_offset + 1,
                         !.state = st,
                         !.address_block = na.address_block,
                         !.input_block = na.input_block,
                         !.pseudo_rand = pseudo_rand,
                         !.ref_lane = ref_lane,
                         !.ref_index = ref_index]]
        /\ hist' = [hist EXCEPT
               !.stamp[seg[l].curr_offset + 1] = Now,
               !.lane[l] =
                   [@ EXCEPT
                      !.wlog = Append(@, seg[l].curr_offset),
                      !.rlog = @ \cup {ref_offset}
                                 \cup (IF seg[l].data_independent_addressing
                                       THEN {} ELSE {prev_offset})
                                 \cup (IF with_xor THEN {seg[l].curr_offset} ELSE {}),
                      !.xlog = @ \cup (IF ref_lane # l THEN {ref_offset} ELSE {}),
                      !.gens = IF regen THEN @ + 1 ELSE @,
                      !.fresh = regen,
                      !.draws = IF seg[l].data_independent_addressing
                                THEN (IF regen THEN 1 ELSE @ + 1)
                                ELSE @,
                      !.gap = IF regen /\ hist.lane[l].gens > 0
                              THEN hist.lane[l].draws ELSE @,
                      !.used_prev = prev_offset,
                      !.used_curr = seg[l].curr_offset,
                      !.used_ref = ref_offset]]

\* one iteration of the loop of lines 135-172, and the loop test after it
Step(l) ==
    /\ seg[l].status = "running"
    /\ seg[l].instance # NULL
    /\ \E prev_offset \in {PrevOffsetInLoop(inst, seg[l].curr_offset, seg[l].prev_offset)} :
       \E regen \in {seg[l].data_independent_addressing /\ NeedsAddresses(seg[l].i)} :
       \E na \in {IF regen
                  THEN next_addresses(seg[l].address_block, seg[l].input_block)
                  ELSE [address_block |-> seg[l].address_block,
                        input_block |-> seg[l].input_block]} :
       \E pseudo_rand \in {IF seg[l].data_independent_addressing
                           THEN Word(na.address_block, seg[l].i % ARGON2_ADDRESSES_IN_BLOCK)
                           ELSE Word(memory[prev_offset + 1], 0)} :
       \E ref_lane \in {RefLane(inst, pass, slice, l, pseudo_rand)} :
       \E ref_index \in {index_alpha(inst, pass, slice, seg[l].i,
                                     Bytes(pseudo_rand, 0, 4), ref_lane = l)} :
          FillCurrent(l, prev_offset, regen, na, pseudo_rand, ref_lane, ref_index,
                      RefOffset(inst, ref_lane, ref_index))
    /\ UNCHANGED << inst, pass, slice, core >>

\* the caller's barrier: every lane has finished the slice
Barrier ==
    /\ pass < inst.passes
    /\ \A l \in Lanes : seg[l].status = "returned" /\ seg[l].instance # NULL
    /\ slice' = (slice + 1) % ARGON2_SYNC_POINTS
    /\ pass' = IF slice = ARGON2_SYNC_POINTS - 1 THEN pass + 1 ELSE pass
    /\ seg' = [l \in Lanes |-> IdleLocals]
    /\ hist' = [hist EXCEPT !.lane = [l \in Lanes |-> IdleHist]]
    /\ UNCHANGED << inst, memory, core >>

Next == \E l \in Lanes : Call(l) \/ Step(l) \/ Barrier

\* the matrix as the caller hands it over: two seed blocks at the head of
\* every lane; the other blocks are allocated and hold whatever the
\* allocation left in them
SeedMemory(I, seed) == [o \in 1..I.memory_blocks |-> PatBlock(seed + 3 * (o - 1))]

\* the content of a block that nothing has written yet, where none is given
Indeterminate == << >>

\* the same matrix with no content given to the blocks not yet written
\* (fill_segment writes a block before anything reads it)
SeedMemoryOnly(I, seed) ==
    [o \in 1..I.memory_blocks |->
        IF (o - 1) % I.lane_length < 2
        THEN PatBlock(seed + 3 * (o - 1))
        ELSE Indeterminate]

Instance(type, version, lanes, segment_length, passes) ==
    [type |-> type, version |-> version, lanes |-> lanes, passes |-> passes,
     segment_length |-> segment_length,
     lane_length |-> segment_length * ARGON2_SYNC_POINTS,
     memory_blocks |-> lanes * segment_length * ARGON2_SYNC_POINTS]

InitOf(instances, Matrix(_)) ==
    /\ inst \in instances
    /\ memory = Matrix(inst)
    /\ pass = 0 /\ slice = 0
    /\ seg = [l \in Lanes |-> IdleLocals]
    /\ hist = [lane |-> [l \in Lanes |-> IdleHist],
               stamp |-> [o \in 1..inst.memory_blocks |->
                             IF (o - 1) % inst.lane_length < 2 THEN 0 ELSE -1]]
    /\ core = Unused

Passes == 2

\* two lanes of 4 segments of 3 blocks, in every addressing mode and in
\* both format revisions
SmallInstances ==
    { Instance(Argon2_d, ARGON2_VERSION_10, 2, 3, Passes),
      Instance(Argon2_i, ARGON2_VERSION_13, 2, 3, Passes),
      Instance(Argon2_id, ARGON2_VERSION_13, 2, 3, Passes) }

Init == InitOf(SmallInstances, LAMBDA I : SeedMemory(I, 11))

Spec == Init /\ [][Next]_vars

AddrSegmentLength == 130

\* one lane whose segments are longer than an address block
LongInstances == { Instance(Argon2_i, ARGON2_VERSION_13, 1, AddrSegmentLength, 1) }

InitAddr == InitOf(LongInstances, LAMBDA I : SeedMemoryOnly(I, 11))

SpecAddr == InitAddr /\ [][Next]_vars

(***************************************************************************)
(* Reference arithmetic for the properties below: 64-bit numbers as 64     *)
(* bits, least significant first                                           *)
(***************************************************************************)

ToBits(w) == Tup64(LAMBDA k : (w[((k - 1) \div 8) + 1] \div Pow2((k - 1) % 8)) % 2)

FromBits(b) ==
    Tup8(LAMBDA j : b[8 * j - 7] + 2 * b[8 * j - 6] + 4 * b[8 * j - 5] + 8 * b[8 * j - 4] +
                    16 * b[8 * j - 3] + 32 * b[8 * j - 2] + 64 * b[8 * j - 1] + 128 * b[8 * j])

ZeroBits == Tup64(LAMBDA k : 0)

\* a + b mod 2^64, bit by bit
RECURSIVE AddBitsFrom(_, _, _, _)
AddBitsFrom(a, b, k, c) ==
    IF k > 64 THEN << >>
    ELSE << (a[k] + b[k] + c) % 2 >> \o AddBitsFrom(a, b, k + 1, (a[k] + b[k] + c) \div 2)

AddBits(a, b) == AddBitsFrom(a, b, 1, 0)

\* a * 2^n mod 2^64
ShiftLeftBits(a, n) == Tup64(LAMBDA k : IF k > n THEN a[k - n] ELSE 0)

\* lo32(a)
Lo32(a) == Tup64(LAMBDA k : IF k <= 32 THEN a[k] ELSE 0)

\* acc + a * (bits i..31 of b), a below 2^32  (acc = acc is always true: it
\* has the sum so far evaluated before the next term is added)
RECURSIVE MulBitsFrom(_, _, _, _)
MulBitsFrom(a, b, i, acc) ==
    IF acc = acc /\ i < 32
    THEN MulBitsFrom(a, b, i + 1,
                     IF b[i + 1] = 1 THEN AddBits(acc, ShiftLeftBits(a, i)) ELSE acc)
    ELSE acc

\* (x + y + 2 * (lo32(x) * lo32(y))) mod 2^64
BlaMkaMath(x, y) ==
    AddBits(AddBits(x, y), ShiftLeftBits(MulBitsFrom(Lo32(x), y, 0, ZeroBits), 1))

\* x rotated right by c bits
RotrBits(b, c) == Tup64(LAMBDA k : b[((k - 1 + c) % 64) + 1])

(***************************************************************************)
(* C4                                                                      *)
(***************************************************************************)

\* C4: in each of the two 64-bit lanes, fBlaMka_vsx(x, y) is
\* (x + y + 2 * (lo32(x) * lo32(y))) mod 2^64, lo32 being the low 32 bits of
\* the lane and the product being the full 64-bit product.
C4_fBlaMkaIsTheFormula ==
    core.pc = "out" =>
        \A lane \in {0, 1} :
            Bytes(core.r, 8 * lane, 8) =
                FromBits(BlaMkaMath(ToBits(Bytes(core.x, 8 * lane, 8)),
                                    ToBits(Bytes(core.y, 8 * lane, 8))))

\* both operands of the first lane are 2^64 - 1: the high halves are not
\* zero, the product does not fit 32 bits, and the sum wraps
C4_Witness ==
    /\ core.pc = "out"
    /\ Bytes(core.x, 0, 8) = << 255, 255, 255, 255, 255, 255, 255, 255 >>
    /\ Bytes(core.y, 0, 8) = << 255, 255, 255, 255, 255, 255, 255, 255 >>
    /\ Bytes(core.r, 0, 8) = << 0, 0, 0, 0, 252, 255, 255, 255 >>

(***************************************************************************)
(* C5                                                                      *)
(***************************************************************************)

\* C5: DIAGONALIZE_VSX followed by UNDIAGONALIZE_VSX gives back all eight
\* vectors byte for byte, and neither step changes A0 or A1.
C5_DiagonalizeRoundTrip ==
    /\ core.pc = "done" => core.w = core.w0
    /\ core.pc # "in" =>
          /\ core.mid.A0 = core.w0.A0 /\ core.mid.A1 = core.w0.A1
          /\ core.w.A0 = core.mid.A0 /\ core.w.A1 = core.mid.A1

\* the round trip is done and the diagonalized set differed from the
\* original in each of B, C and D
C5_Witness ==
    /\ core.pc = "done"
    /\ core.mid.B0 # core.w0.B0 /\ core.mid.B1 # core.w0.B1
    /\ core.mid.C0 # core.w0.C0 /\ core.mid.D0 # core.w0.D0
    /\ core.mid.D1 # core.w0.D1

(***************************************************************************)
(* The Mixing Core word by word (the scalar evaluation C3 refers to).      *)
(* A block is its 128 words v[0..127], each 8 bytes, least significant     *)
(* first; word v[k] is element k+1 of the sequence.                        *)
(***************************************************************************)

\* x + y mod 2^64, byte by byte with the carry t into byte k
RECURSIVE WordAddFrom(_, _, _, _)
WordAddFrom(x, y, k, t) ==
    IF k > 8 THEN << >>
    ELSE << (x[k] + y[k] + t) % 256 >> \o WordAddFrom(x, y, k + 1, (x[k] + y[k] + t) \div 256)

WordAdd(x, y) == WordAddFrom(x, y, 1, 0)

\* column k (0..6) of the product of the low 4 bytes of x and of y
WordMulCol(x, y, k) ==
    (IF k <= 3 THEN x[1] * y[k + 1] ELSE 0) +
    (IF k >= 1 /\ k <= 4 THEN x[2] * y[k] ELSE 0) +
    (IF k >= 2 /\ k <= 5 THEN x[3] * y[k - 1] ELSE 0) +
    (IF k >= 3 THEN x[4] * y[k - 2] ELSE 0)

\* bytes k.. of lo32(x) * lo32(y), t being column k plus the carry into it
RECURSIVE WordMulFrom(_, _, _, _)
WordMulFrom(x, y, k, t) ==
    IF k = 7 THEN << t % 256 >>
    ELSE << t % 256 >> \o
         WordMulFrom(x, y, k + 1, (IF k < 6 THEN WordMulCol(x, y, k + 1) ELSE 0) + (t \div 256))

WordMulLo(x, y) == WordMulFrom(x, y, 0, WordMulCol(x, y, 0))

WordXor(x, y) == Tup8(LAMBDA k : XorBits(x[k], y[k], 8))

\* fBlaMka of the scalar code: x + y + 2 * lo32(x) * lo32(y)
WordTwice(z) == WordAdd(z, z)

WordBlaMka(x, y) == WordAdd(WordAdd(x, y), WordTwice(WordMulLo(x, y)))

rotr64(w, c) == FromBits(RotrBits(ToBits(w), c))

\* the statements of G(a, b, c, d) on the 16 words v of a round:
\* a = fBlaMka(a, b)
MixInto(v, a, b) == [v EXCEPT ![a] = WordBlaMka(v[a], v[b])]

\* d = rotr64(d xor a, c)
RotInto(v, d, a, c) == [v EXCEPT ![d] = rotr64(WordXor(v[d], v[a]), c)]

\* G1 then G2
ScalarG(v, a, b, c, d) ==
    RotInto(MixInto(RotInto(MixInto(
        RotInto(MixInto(RotInto(MixInto(v, a, b), d, a, 32), c, d), b, c, 24),
        a, b), d, a, 16), c, d), b, c, 63)

\* the four columns, then the four diagonals, of the 4 x 4 matrix v0..v15
ScalarColumns(v) ==
    ScalarG(ScalarG(ScalarG(ScalarG(v, 1, 5, 9, 13), 2, 6, 10, 14), 3, 7, 11, 15), 4, 8, 12, 16)

ScalarDiagonals(v) ==
    ScalarG(ScalarG(ScalarG(ScalarG(v, 1, 6, 11, 16), 2, 7, 12, 13), 3, 8, 9, 14), 4, 5, 10, 15)

ScalarRound(v) == ScalarDiagonals(ScalarColumns(v))

\* positions of the words 16i .. 16i+15
RowWords(i) == Tup16(LAMBDA k : 16 * i + k)

\* positions of the words 2i, 2i+1, 2i+16, 2i+17, ..., 2i+112, 2i+113
ColWords(i) == Tup16(LAMBDA k : 2 * i + 16 * ((k - 1) \div 2) + ((k - 1) % 2) + 1)

Gather(W, ix) == Tup16(LAMBDA k : W[ix[k]])

Scatter(W, ix, v) ==
    [W EXCEPT ![ix[1]] = v[1], ![ix[2]] = v[2], ![ix[3]] = v[3], ![ix[4]] = v[4],
              ![ix[5]] = v[5], ![ix[6]] = v[6], ![ix[7]] = v[7], ![ix[8]] = v[8],
              ![ix[9]] = v[9], ![ix[10]] = v[10], ![ix[11]] = v[11], ![ix[12]] = v[12],
              ![ix[13]] = v[13], ![ix[14]] = v[14], ![ix[15]] = v[15], ![ix[16]] = v[16]]

RECURSIVE ScalarRows(_, _)
ScalarRows(W, i) ==
    IF W = W /\ i < 8
    THEN ScalarRows(Scatter(W, RowWords(i), ScalarRound(Gather(W, RowWords(i)))), i + 1)
    ELSE W

RECURSIVE ScalarCols(_, _)
ScalarCols(W, i) ==
    IF W = W /\ i < 8
    THEN ScalarCols(Scatter(W, ColWords(i), ScalarRound(Gather(W, ColWords(i)))), i + 1)
    ELSE W

\* the 128 words of a block or of a state array, and back
Words(blk) == Tup64(LAMBDA i : Word(blk, i - 1)) \o Tup64(LAMBDA i : Word(blk, i + 63))

FromWords(W) == Tup64(LAMBDA i : W[2 * i - 1] \o W[2 * i])

WordsXor(A, B) ==
    Tup64(LAMBDA k : WordXor(A[k], B[k])) \o Tup64(LAMBDA k : WordXor(A[k + 64], B[k + 64]))

\* R is state xor ref; Z is R, xored with the old next_block when accumulating
ScalarPermute(R, Z) == WordsXor(ScalarCols(ScalarRows(R, 0), 0), Z)

ScalarFrom(R, nextW, accumulate) ==
    IF R = R /\ accumulate THEN ScalarPermute(R, WordsXor(R, nextW)) ELSE ScalarPermute(R, R)

ScalarMixingCore(state, ref_block, next_block, accumulate) ==
    FromWords(ScalarFrom(WordsXor(Words(state), Words(ref_block)), Words(next_block),
                         accumulate))

(***************************************************************************)
(* C3                                                                      *)
(***************************************************************************)

\* C3: for every state, reference block, next block and accumulate flag,
\* what fill_block stores to next_block and keeps in state is exactly what
\* the word-by-word evaluation of the Mixing Core produces: xor with the
\* reference, 8 row rounds over the words 16i..16i+15, 8 column rounds over
\* the word pairs (2i, 2i+1), (2i+16, 2i+17), ..., each round applying G to
\* the four columns and then to the four diagonals, and the final xor with
\* the copy taken before the rounds.
C3_VsxEqualsScalar ==
    core.pc = "done" =>
        /\ core.out_next = ScalarMixingCore(core.state, core.ref_block,
                                            core.next_block, core.with_xor)
        /\ core.out_state = core.out_next

\* a block was filled in accumulate mode and one in overwrite mode would
\* have come out differently
C3_Witness ==
    /\ core.pc = "done"
    /\ core.with_xor
    /\ core.out_next # core.next_block
    /\ core.out_next # ScalarMixingCore(core.state, core.ref_block, core.next_block, FALSE)

(***************************************************************************)
(* Properties of fill_segment                                              *)
(***************************************************************************)

\* the offsets written so far by the call of lane l
WrittenBy(l) == { hist.lane[l].wlog[k] : k \in 1..Len(hist.lane[l].wlog) }

\* the call of lane l has got past the guard and into the segment
Entered(l) == seg[l].status # "idle" /\ seg[l].instance # NULL

\* the call of lane l has filled at least one block
HasFilled(l) == hist.lane[l].used_curr >= 0

\* C1: with the calls of the lanes of a slice interleaved block by block and
\* a barrier between slices, no block is written by one call while another
\* call of the slice reads or writes it: the offsets written by different
\* lanes are disjoint, no call reads what another has written in the slice,
\* and every block read in another lane was completed in an earlier slice.
C1_NoRaceWithinSlice ==
    /\ \A l1 \in Lanes : \A l2 \in Lanes \ {l1} :
          WrittenBy(l1) \cap (WrittenBy(l2) \cup hist.lane[l2].rlog) = {}
    /\ \A l \in Lanes : \A o \in hist.lane[l].xlog :
          /\ o \div inst.lane_length # l
          /\ hist.stamp[o + 1] >= 0
          /\ hist.stamp[o + 1] < Now

\* two calls of one slice are both under way, each has written, and one of
\* them has read a block of the other's lane
C1_Witness ==
    \E l1 \in Lanes : \E l2 \in Lanes \ {l1} :
        /\ seg[l1].status = "running" /\ seg[l2].status = "running"
        /\ WrittenBy(l1) # {} /\ WrittenBy(l2) # {}
        /\ hist.lane[l1].xlog # {}

XorBlock(a, b) == Tup64(LAMBDA i : vec_xor(a[i], b[i]))

\* what a plain overwrite writes: permutation(state xor ref) xor state xor
\* ref, whatever the block held
PlainOverwrite(state, ref_block) == fill_block(state, ref_block, ZeroBlock, FALSE)

\* lane l does an iteration of its loop in this step
Fills(l) == seg[l].status = "running" /\ seg'[l] # seg[l]

C2_Step(l) ==
    Fills(l) =>
        \E plain \in {PlainOverwrite(seg[l].state, memory[hist'.lane[l].used_ref + 1])} :
            memory'[seg[l].curr_offset + 1] =
                IF inst.version # ARGON2_VERSION_10 /\ pass >= 1
                THEN XorBlock(memory[seg[l].curr_offset + 1], plain)
                ELSE plain

\* C2: for every block filled: with the newer revision and pass >= 1 the new
\* content is the previous content xor the value a plain overwrite would
\* have written; with ARGON2_VERSION_10 or in pass 0 it is that value, and
\* does not depend on the previous content.
C2_AccumulateRule == [][\A l \in Lanes : C2_Step(l)]_vars

\* a block has been filled in pass >= 1 of an instance of the newer revision
C2_Witness ==
    /\ inst.version = ARGON2_VERSION_13 /\ pass >= 1
    /\ \E l \in Lanes : HasFilled(l)

\* the first offset of the segment of lane l in the current slice
SegmentBase(l) == l * inst.lane_length + slice * inst.segment_length

C7_Enter(l) ==
    (seg[l].instance # "instance" /\ seg'[l].instance = "instance") =>
        /\ seg'[l].i = (IF pass = 0 /\ slice = 0 THEN 2 ELSE 0)
        /\ hist'.lane[l].wlog = << >>
        /\ memory' = memory

C7_Fill(l) ==
    Fills(l) =>
        /\ seg[l].i < inst.segment_length
        /\ seg'[l].i = seg[l].i + 1
        /\ (seg'[l].status = "returned") = (seg'[l].i = inst.segment_length)
        /\ hist'.lane[l].wlog = Append(hist.lane[l].wlog, SegmentBase(l) + seg[l].i)
        /\ \A o \in (DOMAIN memory) \ {SegmentBase(l) + seg[l].i + 1} :
              memory'[o] = memory[o]

\* C7: the call at (pass, lane, slice) writes exactly the offsets
\* lane*lane_length + slice*segment_length + i for i = start, ...,
\* segment_length - 1, each once and in increasing order, start being 2 in
\* pass 0 / slice 0 and 0 otherwise, and returns; no other block changes.
C7_SegmentFrame ==
    [][/\ \A l \in Lanes : C7_Enter(l) /\ C7_Fill(l)
       /\ (\A l \in Lanes : ~Fills(l)) => memory' = memory]_vars

\* a first segment has returned after its blocks 2.., with the seed blocks
\* of its lane as they were handed over
C7_Witness ==
    /\ pass = 0 /\ slice = 0
    /\ \E l \in Lanes :
          /\ seg[l].status = "returned" /\ seg[l].instance # NULL
          /\ Len(hist.lane[l].wlog) = inst.segment_length - 2
          /\ memory[SegmentBase(l) + 1] = PatBlock(11 + 3 * SegmentBase(l))

\* the value of (pseudo_rand >> 32) modulo n, from the bytes 4..7 of the word
HighHalfMod(w, n) ==
    (w[5] + w[6] * (256 % n) + w[7] * (65536 % n) + w[8] * (16777216 % n)) % n

\* C8: in a pass 0 / slice 0 segment the reference lane is the current
\* lane, whatever pseudo_rand and the addressing mode; in every other
\* segment it is (pseudo_rand >> 32) mod lanes.
C8_ReferenceLane ==
    \A l \in Lanes :
        HasFilled(l) =>
            /\ seg[l].ref_lane =
                  (IF pass = 0 /\ slice = 0 THEN l
                   ELSE HighHalfMod(seg[l].pseudo_rand, inst.lanes))
            /\ hist.lane[l].used_ref \div inst.lane_length = seg[l].ref_lane

\* a block of a first segment was filled with a pseudo_rand that names
\* another lane
C8_Witness ==
    /\ pass = 0 /\ slice = 0
    /\ \E l \in Lanes :
          /\ HasFilled(l)
          /\ HighHalfMod(seg[l].pseudo_rand, inst.lanes) # l

C9_Call(l) ==
    (seg[l].instance # NULL /\ seg'[l].instance = NULL) =>
        /\ seg'[l].status = "returned"
        /\ memory' = memory
        /\ hist' = hist
        /\ \A k \in Lanes \ {l} : seg'[k] = seg[k]

\* C9: a call with no instance returns without reading or writing a block
\* and without signalling anything: the matrix is as it was.
C9_NullIsNoOp == [][\A l \in Lanes : C9_Call(l)]_vars

\* a call with no instance has returned while the other lane was filling
\* its segment
C9_Witness ==
    \E l \in Lanes : \E k \in Lanes \ {l} :
        /\ seg[l].instance = NULL /\ seg[l].status = "returned"
        /\ seg[k].status = "running" /\ HasFilled(k)

\* the offset before c in the circular order of the lane of c
CircularPredecessor(c) ==
    ((c \div inst.lane_length) * inst.lane_length) +
    (((c % inst.lane_length) + inst.lane_length - 1) % inst.lane_length)

\* C10: at every fill_block of fill_segment, and when the state is seeded,
\* prev_offset is the offset just before curr_offset in the circular order
\* of the lane: it is in the lane of curr_offset and inside the matrix.
C10_PrevOffset ==
    \A l \in Lanes :
        /\ HasFilled(l) =>
              /\ hist.lane[l].used_prev = CircularPredecessor(hist.lane[l].used_curr)
              /\ hist.lane[l].used_prev \div inst.lane_length = l
              /\ hist.lane[l].used_prev \in 0..(inst.memory_blocks - 1)
        /\ (Entered(l) /\ ~HasFilled(l)) =>
              /\ seg[l].prev_offset = CircularPredecessor(seg[l].curr_offset)
              /\ hist.lane[l].rlog = {seg[l].prev_offset}

\* in a later pass a lane has filled its first position from its last one,
\* and then its second position
C10_Witness ==
    \E l \in Lanes :
        /\ pass >= 1 /\ slice = 0
        /\ hist.lane[l].used_curr = l * inst.lane_length + 1
        /\ hist.lane[l].rlog \cap {(l + 1) * inst.lane_length - 1} # {}

\* the call of lane l runs under data-independent addressing
DataIndependent(l) == Entered(l) /\ seg[l].data_independent_addressing

\* the address block made from the input block of lane l's segment with the
\* counter word n
AddressBlockFor(l, n) ==
    SecondFill(fill_block(ZeroBlock,
                          SetWord(InitInputBlock(inst, pass, l, slice), 6, ToWord(n)),
                          ZeroBlock, FALSE))

\* the n-th generation of a call is computed from the counter word n
CounterFollowsGenerations(l) ==
    /\ hist.lane[l].gens >= 1 =>
          Word(seg[l].input_block, 6) = ToWord(hist.lane[l].gens)
    /\ hist.lane[l].fresh =>
          seg[l].address_block = AddressBlockFor(l, hist.lane[l].gens)

\* the address blocks generated by the time the loop index is i: one before
\* the loop in pass 0 / slice 0, and one at every multiple of 128 reached
GenerationsBy(i) ==
    IF pass = 0 /\ slice = 0
    THEN 1 + ((i - 1) \div ARGON2_ADDRESSES_IN_BLOCK)
    ELSE (i + ARGON2_ADDRESSES_IN_BLOCK - 1) \div ARGON2_ADDRESSES_IN_BLOCK

\* C6 as stated: in every call under data-independent addressing, the pass
\* 0 / slice 0 segment included, an address block is replaced exactly when
\* 128 values have been drawn from it, and the n-th generation of a call is
\* computed from the counter word n.
C6_Every128Draws ==
    \A l \in Lanes :
        DataIndependent(l) =>
            /\ hist.lane[l].gap \in {-1, ARGON2_ADDRESSES_IN_BLOCK}
            /\ hist.lane[l].draws <= ARGON2_ADDRESSES_IN_BLOCK
            /\ CounterFollowsGenerations(l)

\* C6 (amended): in every call under data-independent addressing an address
\* block is generated before the loop in pass 0 / slice 0 and whenever the
\* loop index is a multiple of 128; a block is replaced when 128 values have
\* been drawn from it, except the first block of a pass 0 / slice 0 segment,
\* which is replaced after the 126 values of the indices 2..127; and the
\* n-th generation of a call is computed from the counter word n.
C6_RegenerationAtMultiplesOf128 ==
    \A l \in Lanes :
        DataIndependent(l) =>
            /\ hist.lane[l].gens = GenerationsBy(seg[l].i)
            /\ \/ hist.lane[l].gap \in {-1, ARGON2_ADDRESSES_IN_BLOCK}
               \/ /\ pass = 0 /\ slice = 0 /\ hist.lane[l].gens = 2
                  /\ hist.lane[l].gap = ARGON2_ADDRESSES_IN_BLOCK - 2
            /\ hist.lane[l].gens >= 2 => hist.lane[l].gap # -1
            /\ hist.lane[l].draws <= ARGON2_ADDRESSES_IN_BLOCK
            /\ CounterFollowsGenerations(l)

\* the first address block of a pass 0 / slice 0 segment has just been
\* replaced, and so has, in a later slice, a block that served 128 values
C6_Witness ==
    \E l \in Lanes :
        /\ DataIndependent(l) /\ hist.lane[l].fresh /\ hist.lane[l].gens = 2
        /\ \/ pass = 0 /\ slice = 0 /\ hist.lane[l].gap = 126
           \/ slice = 1 /\ hist.lane[l].gap = 128

=============================================================================
